---- MODULE Spec2Model ----
(***************************************************************************)
(* Model of AI_Digital_Profile:                                            *)
(*   - the conversation orchestrator (src/src/chatbot.py): the             *)
(*     ProfileChatbot facade, its bounded history, and the compiled        *)
(*     LangGraph  ROUTER -> {OFF_TOPIC | RETRIEVER -> VALIDATOR ->         *)
(*     {RESPONDER | INSUFFICIENT}};                                        *)
(*   - the retrieval engine (src/src/rag_engine.py);                       *)
(*   - the chat page's session (src/app.py);                               *)
(*   - the hierarchy chunker of the ingestion script                       *)
(*     (src/scripts/setup_vectoredb.py).                                   *)
(*                                                                         *)
(* Python strings are TLA+ strings; a character is a string of length 1.   *)
(* The language model and, for the orchestrator, the retrieval engine are  *)
(* external collaborators: every call to them either raises or returns a   *)
(* value the environment chooses from a small set.                         *)
(***************************************************************************)
EXTENDS Integers, Sequences, FiniteSets, TLC

VARIABLES
    history,    \* ProfileChatbot.history: sequence of [role, content]
    pushed,     \* ghost: every entry handed to _push since construction / clear_history
    lastOp,     \* the public method that ran last
    lastQuery,  \* the argument of the last chat() call
    ret,        \* outcome of the last call: [raised, value]
    run,        \* ghost: the graph invocation of the last chat() call, if any
    smalltalk   \* ghost: outcomes of the greeting / farewell generation calls
                \* the last operation made

\* the conversation orchestrator
chatVars == <<history, pushed, lastOp, lastQuery, ret, run, smalltalk>>

VARIABLES
    store_on_disk,  \* the index saved at VECTOR_STORE_PATH, if the path exists
    vector_store,   \* RAGEngine.vector_store: None or the loaded index
    ragOut,         \* the last RAGEngine call: its arguments and its outcome
    _engine         \* the module-level singleton: None or the engine it holds

\* the retrieval engine
ragVars == <<store_on_disk, vector_store, ragOut, _engine>>

VARIABLES
    chatbot,        \* st.session_state.chatbot is not None
    session_history \* st.session_state.chat_history: the transcript on display

\* the Streamlit session of app.py
appVars == <<chatbot, session_history>>

VARIABLES
    lists,          \* the list objects of the interpreter, by identity
    bots,           \* per ProfileChatbot instance: the list its history attribute names
    caller          \* the instance and method of the last call on the two instances

\* two chatbots side by side
twinVars == <<lists, bots, caller>>

VARIABLES
    elements,           \* ghost: the elements the chunker's loop has consumed
    current_title,      \* chunk_and_enrich_hierarchy: the hierarchy trackers
    current_header,
    current_subheader,
    sections,           \* the accumulator: [path, texts] in first-seen order
    placed,             \* ghost: the path the last element was appended under, if any
    corrected,          \* ghost: the last element's category after the correction
    final_chunks,       \* the returned list of chunks, None while the loop runs
    split_log           \* ghost: per section, its joined text and its sub_chunks

\* the hierarchy chunker of the ingestion script
chunkVars ==
    <<elements, current_title, current_header, current_subheader, sections, placed,
      corrected, final_chunks, split_log>>

VARIABLES
    self_history,   \* the history list of the one chatbot two threads call
    all_appended,   \* ghost: every entry appended to it, in append order
    pc,             \* per thread: where in chat() it stands
    frame,          \* per thread: the locals of its chat() call
    calls           \* ghost: the chat() calls made while no other was under way

\* one chatbot called from two threads
raceVars == <<self_history, all_appended, pc, frame, calls>>

vars == <<chatVars, ragVars, appVars, twinVars, chunkVars, raceVars>>

\* what the methods of one component leave alone
exceptChat == <<ragVars, appVars, twinVars, chunkVars, raceVars>>
exceptRag == <<chatVars, appVars, twinVars, chunkVars, raceVars>>
exceptApp == <<ragVars, twinVars, chunkVars, raceVars>>
exceptTwin == <<chatVars, ragVars, appVars, chunkVars, raceVars>>
exceptChunk == <<chatVars, ragVars, appVars, twinVars, raceVars>>
exceptRace == <<chatVars, ragVars, appVars, twinVars, chunkVars>>

-----------------------------------------------------------------------------
(* Bounds of the model                                                     *)

\* chat() turns recorded since construction or the last clear_history()
MaxTurns == 11
\* turns since the last clear that are not the routine greeting exchange
MaxVaried == 1
\* chat() turns of a short conversation in which every turn may differ
MaxBriefTurns == 5
\* elements of the document handed to the chunker
MaxElements == 4
\* chat() calls made one at a time on the chatbot that two threads share
MaxSoloCalls == 10

-----------------------------------------------------------------------------
(* Program constants                                                       *)

MAX_CONVERSATION_HISTORY == 20

\* keys of TOPIC_MAP, in dictionary order
TOPIC_MAP ==
    << "Introduction", "Family Background", "Education", "Job Summary",
       "Project Details", "Skills", "Honours and Awards",
       "Licences and Certifications", "Hobbies", "Languages Known",
       "Weakness", "Role Suitability" >>

GREETING_WORDS ==
    {"hello", "hi", "hey", "greetings", "good morning", "good afternoon"}

FAREWELL_WORDS ==
    {"bye", "goodbye", "thank you", "thanks", "see you", "stop", "exit"}

APOLOGY ==
    "I hit a small snag processing that - could you try rephrasing? I'm happy to help with anything about the profile."

GREETING_FALLBACK ==
    "I'm the AI voice of Vivek Joseph Carvalho, a Senior AI/ML Specialist. Let's discuss about my experience, projects, skills, or background - I'm happy to answer!"

FAREWELL_FALLBACK ==
    "Thank you for your interest!\n\nEmail: vivek_carvalho@yahoo.co.in\nLinkedIn: https://www.linkedin.com/in/vivekcarvalho/\n\nLooking forward to connecting!"

NO_HISTORY == "No previous conversation."

\* self.history[-6:] in _format_history
HISTORY_WINDOW == 6

CHUNK_SEPARATOR == "\n\n---\n\n"

\* LangGraph's END sentinel
END == "__end__"

-----------------------------------------------------------------------------
(* Python string methods                                                   *)

UPPER_LETTERS == "ABCDEFGHIJKLMNOPQRSTUVWXYZ"
LOWER_LETTERS == "abcdefghijklmnopqrstuvwxyz"

CharAt(s, i) == SubSeq(s, i, i)

\* the letter tables of str.lower() and str.upper()
TO_LOWER ==
    [c \in {CharAt(UPPER_LETTERS, i) : i \in 1..Len(UPPER_LETTERS)} |->
        CharAt(LOWER_LETTERS,
               CHOOSE i \in 1..Len(UPPER_LETTERS) : CharAt(UPPER_LETTERS, i) = c)]

TO_UPPER ==
    [c \in {CharAt(LOWER_LETTERS, i) : i \in 1..Len(LOWER_LETTERS)} |->
        CharAt(UPPER_LETTERS,
               CHOOSE i \in 1..Len(LOWER_LETTERS) : CharAt(LOWER_LETTERS, i) = c)]

\* a character under a letter table: letters outside the table are kept
MapChar(c, table) == IF c \in DOMAIN table THEN table[c] ELSE c

RECURSIVE MapString(_, _)
MapString(s, table) ==
    IF s = "" THEN ""
    ELSE MapChar(CharAt(s, 1), table) \o MapString(Tail(s), table)

\* str.lower() and str.upper()
Lower(s) == MapString(s, TO_LOWER)
Upper(s) == MapString(s, TO_UPPER)

\* the characters str.strip() removes when called without an argument
WHITESPACE == {" ", "\n", "\t", "\r"}

RECURSIVE LStrip(_, _)
LStrip(s, chars) ==
    IF s # "" /\ CharAt(s, 1) \in chars THEN LStrip(Tail(s), chars) ELSE s

RECURSIVE RStrip(_, _)
RStrip(s, chars) ==
    IF s # "" /\ CharAt(s, Len(s)) \in chars
    THEN RStrip(SubSeq(s, 1, Len(s) - 1), chars)
    ELSE s

\* s.strip(chars)
StripChars(s, chars) == RStrip(LStrip(s, chars), chars)

\* s.strip()
Strip(s) == StripChars(s, WHITESPACE)

\* sub in s
Contains(s, sub) ==
    \E i \in 1..(Len(s) - Len(sub) + 1) : SubSeq(s, i, i + Len(sub) - 1) = sub

\* sep.join(parts)
RECURSIVE Join(_, _)
Join(parts, sep) ==
    IF parts = <<>> THEN ""
    ELSE IF Len(parts) = 1 THEN parts[1]
    ELSE parts[1] \o sep \o Join(Tail(parts), sep)

\* seq[-n:]
LastN(seq, n) ==
    IF Len(seq) <= n THEN seq ELSE SubSeq(seq, Len(seq) - n + 1, Len(seq))

-----------------------------------------------------------------------------
(* External collaborators: one outcome per call                            *)

\* llm.invoke(...).content, or the call raising
Returns(text) == [raised |-> FALSE, content |-> text]
Raises == [raised |-> TRUE, content |-> ""]

\* what the language model writes for the generation prompts
LLM_TEXT ==
    [ responder    |-> " Vivek works with Python, LangGraph and FAISS. Anything else?\n",
      off_topic    |-> "I can only talk about the profile - ask me about skills or projects. ",
      insufficient |-> "\nI don't have that specific detail. Try asking about education.",
      greeting     |-> " Hi! I'm the AI voice of Vivek.\n",
      farewell     |-> "Thanks for stopping by!\n" ]

\* raw replies of the language model to ROUTER_PROMPT
RouterReplies == {" skills.\n", "off_topic", "Cooking recipes"}

\* raw replies of the language model to VALIDATOR_PROMPT
ValidatorReplies == {" pass\n", "FAIL"}

\* chunk lists rag.retrieve returns
ChunkLists ==
    { <<>>,
      << "Source: About_me.docx > Context: Skills > Section: Core\nPython, LangGraph",
         "Source: About_me.docx > Context: Skills > Section: Tools\nFAISS" >> }

\* the outcomes of the external calls one graph invocation can make
Oracles(routerReplies, validatorReplies, chunkLists) ==
    [ router    : {Raises} \cup {Returns(t) : t \in routerReplies},
      retriever : {[raised |-> TRUE, chunks |-> <<>>]}
                    \cup {[raised |-> FALSE, chunks |-> c] : c \in chunkLists},
      validator : {Raises} \cup {Returns(t) : t \in validatorReplies},
      gen       : BOOLEAN ]

\* a graph oracle for calls that never reach the graph: every call raises
NoOracle ==
    [router |-> Raises, retriever |-> [raised |-> TRUE, chunks |-> <<>>],
     validator |-> Raises, gen |-> FALSE]

\* the outcomes of the greeting / farewell generation call
SmallTalkOutcomes(kind) == {Raises, Returns(LLM_TEXT[kind])}

-----------------------------------------------------------------------------
(* GraphState and the node implementations                                 *)

initial_state(query, chat_history) ==
    [ query        |-> query,
      topic        |-> "",
      context      |-> "",
      validation   |-> "",
      response     |-> "",
      chat_history |-> chat_history ]

\* candidate = raw.strip(".\n \"'").strip() on raw = content.strip()
Candidate(content) ==
    Strip(StripChars(Strip(content), {".", "\n", " ", "\"", "'"}))

\* key.lower() for every key of TOPIC_MAP
LOWER_KEYS == [i \in 1..Len(TOPIC_MAP) |-> Lower(TOPIC_MAP[i])]

\* for key in TOPIC_MAP: if key.lower() == candidate.lower(): matched = key; break
RECURSIVE MatchFrom(_, _)
MatchFrom(i, lowered) ==
    IF i > Len(TOPIC_MAP) THEN "off_topic"
    ELSE IF LOWER_KEYS[i] = lowered THEN TOPIC_MAP[i]
    ELSE MatchFrom(i + 1, lowered)

MatchTopic(candidate) == MatchFrom(1, Lower(candidate))

\* faulty variant of router_node: the candidate is stored without matching
router_node_Unmatched(state, content) ==
    [state EXCEPT !.topic = Candidate(content)]

router_node(state, content) ==
    [state EXCEPT !.topic = MatchTopic(Candidate(content))]

\* RAGEngine.retrieve_formatted on the chunks retrieve() returned
retrieve_formatted(chunks) ==
    IF chunks # <<>> THEN Join(chunks, CHUNK_SEPARATOR) ELSE ""

retriever_node(state, context) ==
    [state EXCEPT !.context = context]

\* faulty variant of Verdict: only the bare word passes
Verdict_ExactMatch(content) ==
    IF Upper(Strip(content)) = "PASS" THEN "PASS" ELSE "FAIL"

\* the verdict read from the validator's raw response
Verdict(content) ==
    IF Contains(Upper(Strip(content)), "PASS") THEN "PASS" ELSE "FAIL"

validator_node(state, content) ==
    [state EXCEPT !.validation = Verdict(content)]

responder_node(state, content) ==
    [state EXCEPT !.response = Strip(content)]

off_topic_node(state, content) ==
    [state EXCEPT !.response = Strip(content)]

insufficient_node(state, content) ==
    [state EXCEPT !.response = Strip(content)]

\* faulty variant of route_after_router: every topic goes on to the retriever
route_after_router_AlwaysRetrieve(state) == "retriever"

route_after_router(state) ==
    IF state.topic = "off_topic" THEN "off_topic" ELSE "retriever"

\* faulty variant of route_after_validator: the two targets are exchanged
route_after_validator_Exchanged(state) ==
    IF state.validation = "PASS" THEN "insufficient" ELSE "responder"

route_after_validator(state) ==
    IF state.validation = "PASS" THEN "responder" ELSE "insufficient"

-----------------------------------------------------------------------------
(* The compiled graph                                                      *)

NODES ==
    {"router", "retriever", "validator", "responder", "off_topic", "insufficient"}

ENTRY_POINT == "router"

\* the external call a node makes, with the outcome the environment chose
ExternalCall(node, o) ==
    CASE node = "router"    -> o.router
      [] node = "validator" -> o.validator
      [] node = "retriever" ->
            [raised  |-> o.retriever.raised,
             content |-> retrieve_formatted(o.retriever.chunks)]
      [] OTHER -> IF o.gen THEN Returns(LLM_TEXT[node]) ELSE Raises

\* the node functions registered by add_node
NodeFn(node, state, content) ==
    CASE node = "router"       -> router_node(state, content)
      [] node = "retriever"    -> retriever_node(state, content)
      [] node = "validator"    -> validator_node(state, content)
      [] node = "responder"    -> responder_node(state, content)
      [] node = "off_topic"    -> off_topic_node(state, content)
      [] node = "insufficient" -> insufficient_node(state, content)

\* faulty variant of Edge: insufficient is wired to responder instead of END
Edge_InsufficientToResponder(node, state) ==
    CASE node = "router"       -> route_after_router(state)
      [] node = "retriever"    -> "validator"
      [] node = "validator"    ->
            [responder |-> "responder", insufficient |-> "insufficient"]
                [route_after_validator(state)]
      [] node = "responder"    -> END
      [] node = "off_topic"    -> END
      [] node = "insufficient" -> "responder"

\* faulty variant of Edge: the retriever is wired straight to the responder
Edge_SkipsValidator(node, state) ==
    CASE node = "router"       -> route_after_router(state)
      [] node = "retriever"    -> "responder"
      [] node = "validator"    ->
            [responder |-> "responder", insufficient |-> "insufficient"]
                [route_after_validator(state)]
      [] node = "responder"    -> END
      [] node = "off_topic"    -> END
      [] node = "insufficient" -> END

\* the edges added by add_edge / add_conditional_edges
Edge(node, state) ==
    CASE node = "router"       -> route_after_router(state)
      [] node = "retriever"    -> "validator"
      [] node = "validator"    ->
            [responder |-> "responder", insufficient |-> "insufficient"]
                [route_after_validator(state)]
      [] node = "responder"    -> END
      [] node = "off_topic"    -> END
      [] node = "insufficient" -> END

\* graph execution from `node`: run the node, follow its edge, stop at END or
\* at the first node that raises
RECURSIVE RunFrom(_, _, _, _)
RunFrom(node, state, trace, o) ==
    IF node = END
    THEN [invoked |-> TRUE, raised |-> FALSE, state |-> state, trace |-> trace]
    ELSE LET out == ExternalCall(node, o)
             tr  == Append(trace, [node |-> node, raised |-> out.raised,
                                   content |-> out.content])
         IN  IF out.raised
             THEN [invoked |-> TRUE, raised |-> TRUE, state |-> state, trace |-> tr]
             ELSE LET next == NodeFn(node, state, out.content)
                  IN  RunFrom(Edge(node, next), next, tr, o)

\* self.graph.invoke(initial_state)
graph_invoke(initial, o) == RunFrom(ENTRY_POINT, initial, <<>>, o)

\* no graph invocation in this call
NoRun ==
    [invoked |-> FALSE, raised |-> FALSE, state |-> initial_state("", ""),
     trace |-> <<>>]

-----------------------------------------------------------------------------
(* ProfileChatbot                                                          *)

\* the session memory: the history attribute, and the ghost record of pushes
NewMemory == [history |-> <<>>, pushed |-> <<>>]

\* faulty variant of Window: the list is cut below the cap once it is full
Window_CutsAtCap(h) ==
    IF Len(h) >= MAX_CONVERSATION_HISTORY
    THEN LastN(h, MAX_CONVERSATION_HISTORY - 1)
    ELSE h

\* faulty variant of Window: the slice keeps the oldest entries, history[:MAX]
Window_KeepsOldest(h) ==
    IF Len(h) > MAX_CONVERSATION_HISTORY
    THEN SubSeq(h, 1, MAX_CONVERSATION_HISTORY)
    ELSE h

\* if len(self.history) > MAX: self.history = self.history[-MAX:]
Window(h) ==
    IF Len(h) > MAX_CONVERSATION_HISTORY
    THEN LastN(h, MAX_CONVERSATION_HISTORY)
    ELSE h

_push(mem, role, content) ==
    LET entry == [role |-> role, content |-> content]
    IN  [history |-> Window(Append(mem.history, entry)),
         pushed  |-> Append(mem.pushed, entry)]

\* one line of _format_history
HistoryLine(msg) ==
    (IF msg.role = "user" THEN "User" ELSE "Assistant") \o ": " \o msg.content

\* faulty variant of _format_history: an empty history renders as no text
_format_history_NoPlaceholder(h) ==
    LET recent == LastN(h, HISTORY_WINDOW)
    IN  Join([i \in 1..Len(recent) |-> HistoryLine(recent[i])], "\n")

_format_history(h) ==
    IF h = <<>> THEN NO_HISTORY
    ELSE LET recent == LastN(h, HISTORY_WINDOW)
         IN  Join([i \in 1..Len(recent) |-> HistoryLine(recent[i])], "\n")

clear_history(mem) == NewMemory

get_history(h) == h

\* try: llm.invoke(GREETING_PROMPT).content.strip()  except: static text
get_greeting(call) ==
    IF call.raised THEN GREETING_FALLBACK ELSE Strip(call.content)

\* faulty variant of get_farewell: the except branch returns the greeting text
get_farewell_GreetingFallback(call) ==
    IF call.raised THEN GREETING_FALLBACK ELSE Strip(call.content)

get_farewell(call) ==
    IF call.raised THEN FAREWELL_FALLBACK ELSE Strip(call.content)

\* faulty variant of Normalised: the query is lower-cased but not trimmed
Normalised_Untrimmed(query) == Lower(query)

\* lower = query.lower().strip()
Normalised(query) == Strip(Lower(query))

\* lower in {"hello", "hi", ...}
IsGreeting(lower) == lower \in GREETING_WORDS

\* faulty variant of IsFarewell: the whole query must be a farewell keyword
IsFarewell_WholeQuery(lower) == lower \in FAREWELL_WORDS

\* any(w in lower for w in ("bye", ...))
IsFarewell(lower) == \E w \in FAREWELL_WORDS : Contains(lower, w)

\* the branch chat() takes: the greeting test comes first
PathOf(lower) ==
    IF IsGreeting(lower) THEN "greeting"
    ELSE IF IsFarewell(lower) THEN "farewell"
    ELSE "graph"

ChatPath(query) == PathOf(Normalised(query))

\* faulty variant of RecordTurn: the reply is pushed before the query
RecordTurn_ReplyFirst(mem, query, reply) ==
    _push(_push(mem, "assistant", reply), "user", query)

\* self._push("user", query); self._push("assistant", reply)
RecordTurn(mem, query, reply) ==
    _push(_push(mem, "user", query), "assistant", reply)

\* faulty variant of GuardedReply: no try/except around graph.invoke
GuardedReply_Unguarded(r) ==
    [raised |-> r.raised, reply |-> r.state.response]

\* faulty variant of GuardedReply: the except branch keeps the empty response
GuardedReply_NoApology(r) ==
    [raised |-> FALSE, reply |-> r.state.response]

\* try: reply = graph.invoke(...)["response"]  except Exception: reply = apology
GuardedReply(r) ==
    [raised |-> FALSE, reply |-> IF r.raised THEN APOLOGY ELSE r.state.response]

\* chat(query) on memory mem; env holds the outcomes of the external calls
chat(mem, query, env) ==
    LET path == ChatPath(query) IN
    IF path = "greeting"
    THEN LET reply == get_greeting(env.smalltalk)
         IN  [raised |-> FALSE, reply |-> reply,
              mem |-> RecordTurn(mem, query, reply), run |-> NoRun,
              smalltalk |-> <<env.smalltalk>>]
    ELSE IF path = "farewell"
    THEN LET reply == get_farewell(env.smalltalk)
         IN  [raised |-> FALSE, reply |-> reply,
              mem |-> RecordTurn(mem, query, reply), run |-> NoRun,
              smalltalk |-> <<env.smalltalk>>]
    ELSE LET r   == graph_invoke(
                        initial_state(query, _format_history(mem.history)),
                        env.graph)
             got == GuardedReply(r)
         IN  IF got.raised
             THEN [raised |-> TRUE, reply |-> "", mem |-> mem, run |-> r,
                   smalltalk |-> <<>>]
             ELSE [raised |-> FALSE, reply |-> got.reply,
                   mem |-> RecordTurn(mem, query, got.reply), run |-> r,
                   smalltalk |-> <<>>]

-----------------------------------------------------------------------------
(* Inputs of the session specification                                     *)

\* the routine exchange: this query answered by the generated greeting
ROUTINE_QUERY == "hi"

Queries == {ROUTINE_QUERY, "Thank you!", "What are your technical skills?"}

\* the oracles that differ in an outcome the graph asks for: a call that is
\* never made (after a call that raised, or on the branch not taken) has the
\* outcome NoOracle gives it
Consulted(oracles) ==
    { o \in oracles :
        LET retrieves == /\ ~o.router.raised
                         /\ MatchTopic(Candidate(o.router.content)) # "off_topic"
            validates == retrieves /\ ~o.retriever.raised
            generates == \/ ~o.router.raised /\ ~retrieves
                         \/ validates /\ ~o.validator.raised
        IN  /\ ~retrieves => o.retriever = NoOracle.retriever
            /\ ~validates => o.validator = NoOracle.validator
            /\ ~generates => o.gen = NoOracle.gen }

GraphOracles == Consulted(Oracles(RouterReplies, ValidatorReplies, ChunkLists))

IsRoutine(user, assistant) ==
    /\ user = [role |-> "user", content |-> ROUTINE_QUERY]
    /\ assistant = [role |-> "assistant", content |-> Strip(LLM_TEXT.greeting)]

\* recorded turns that are not the routine exchange
Varied(p) ==
    Cardinality({k \in 1..(Len(p) \div 2) : ~IsRoutine(p[2 * k - 1], p[2 * k])})

MayVary == Varied(pushed) < MaxVaried

-----------------------------------------------------------------------------
(* RAGEngine (src/src/rag_engine.py)                                       *)

\* an Optional value: None, or the value wrapped
None == <<>>
Some(x) == <<x>>

\* the names config/settings.py defines
SETTINGS ==
    { "OPENAI_API_KEY", "GOOGLE_API_KEY", "GROQ_API_KEY", "VECTORDB_URL",
      "VECTORDB_API_KEY", "VECTORDB_COLLECTION_NAME", "LLM_PROVIDER",
      "MODEL_NAME", "TEMPERATURE", "MAX_TOKENS", "EMBEDDING_MODEL",
      "RESUME_FILE", "VECTOR_STORE_LOCATION", "VECTOR_STORE_PATH",
      "VECTOR_STORE_HOST", "TOP_K_RESULTS", "CHUNK_WARNING_THRESHOLD",
      "CHUNK_OVERLAP_SIZE", "PROFILE_INFO", "DEVELOPER_NAME",
      "PROFILE_PICTURE_PATH", "CHATBOT_AVATAR", "USER_AVATAR",
      "MAX_CONVERSATION_HISTORY", "ALLOWED_TOPICS", "BLOCKED_TOPICS" }

VECTOR_STORE_PATH == "data/vector_store"

TOP_K_RESULTS == 4

\* the message of the FileNotFoundError load() raises
STORE_NOT_FOUND ==
    "Vector store not found at '" \o VECTOR_STORE_PATH \o "'.\n"
        \o "Build it once with:  python scripts/setup_vectordb.py"

\* a stored chunk: its text and the title metadata written at ingestion
Doc(content, title) == [page_content |-> content, title |-> title]

\* the indexes an ingestion run saves
Indexes ==
    { << Doc("Source: About_me.docx > Context: Skills > Section: Core > Sub-Section: \nContent: Python, LangGraph", "Skills"),
         Doc("Source: About_me.docx > Context: Education > Section:  > Sub-Section: \nContent: M.Sc. in Data Science", "Education"),
         Doc("Source: About_me.docx > Context: Skills > Section: Tools > Sub-Section: \nContent: FAISS", "Skills") >>,
      << Doc("Source: About_me.docx > Context: Unknown Title > Section:  > Sub-Section: \nContent: Vivek builds agentic AI systems.", "Unknown Title") >> }

\* faulty variant of load: the path is not tested, FAISS.load_local fails on its own
load_NoPathCheck(store, disk, readable) ==
    IF disk = None \/ ~readable
    THEN [raised |-> TRUE, error |-> "RuntimeError",
          message |-> "could not open index.faiss", vector_store |-> store]
    ELSE [raised |-> FALSE, error |-> "", message |-> "", vector_store |-> disk]

\* load() on an engine whose vector_store is store; readable is whether
\* FAISS.load_local can deserialise what is on disk
load(store, disk, readable) ==
    IF disk = None
    THEN [raised |-> TRUE, error |-> "FileNotFoundError",
          message |-> STORE_NOT_FOUND, vector_store |-> store]
    ELSE IF ~readable
    THEN [raised |-> TRUE, error |-> "RuntimeError",
          message |-> "could not open index.faiss", vector_store |-> store]
    ELSE [raised |-> FALSE, error |-> "", message |-> "", vector_store |-> disk]

\* faulty variant of SearchFilter: only the keys of TOPIC_MAP are filtered on
SearchFilter_CanonicalOnly(topic) ==
    IF topic # None /\ \E i \in 1..Len(TOPIC_MAP) : TOPIC_MAP[i] = topic[1]
    THEN Some([title |-> topic[1]])
    ELSE None

\* search_filter = {"title": topic} if topic else None
SearchFilter(topic) ==
    IF topic # None /\ topic[1] # ""
    THEN Some([title |-> topic[1]])
    ELSE None

\* positions of the documents of an index that pass the filter
Passing(index, search_filter) ==
    {i \in 1..Len(index) :
        search_filter = None \/ index[i].title = search_filter[1].title}

\* retriever.invoke(query): up to k passing documents, in the order the
\* similarity ranking gives them
Search(index, k, search_filter) ==
    LET pass == Passing(index, search_filter)
        n    == IF Cardinality(pass) < k THEN Cardinality(pass) ELSE k
    IN  { [i \in 1..n |-> index[order[i]]] :
            order \in {f \in [1..n -> pass] :
                          \A a, b \in 1..n : a # b => f[a] # f[b]} }

\* retrieve(query, topic): the outcomes the call can have.  The keyword
\* dictionary is built before the retriever is: reading an attribute that
\* config/settings.py does not define raises AttributeError.
retrieve(store, query, topic) ==
    IF store = None
    THEN {[raised |-> TRUE, error |-> "RuntimeError",
           search_filter |-> None, value |-> <<>>]}
    ELSE LET search_filter == SearchFilter(topic) IN
         IF ~({"TOP_K_RESULTS", "FETCH_RESULTS"} \subseteq SETTINGS)
         THEN {[raised |-> TRUE, error |-> "AttributeError",
                search_filter |-> search_filter, value |-> <<>>]}
         ELSE {[raised |-> FALSE, error |-> "",
                search_filter |-> search_filter,
                value |-> [i \in 1..Len(docs) |-> docs[i].page_content]] :
                  docs \in Search(store[1], TOP_K_RESULTS, search_filter)}

\* RAGEngine(): the engine after __init__
RAGEngine == [vector_store |-> None]

\* get_rag_engine(): the singleton is assigned before it is loaded, and the
\* call returns it unless load() raised
get_rag_engine(engine, disk, readable) ==
    IF engine = None
    THEN LET loaded == load(RAGEngine.vector_store, disk, readable)
         IN  [raised |-> loaded.raised, error |-> loaded.error,
              message |-> loaded.message,
              engine |-> Some([vector_store |-> loaded.vector_store])]
    ELSE [raised |-> FALSE, error |-> "", message |-> "", engine |-> engine]

\* no RAGEngine method has been called yet
NoRagCall ==
    [op |-> "init", query |-> "", topic |-> None, raised |-> FALSE,
     error |-> "", message |-> "", search_filter |-> None, value |-> <<>>]

RagQueries == {"What are your technical skills?", "Where did you study?", ""}

RagTopics ==
    {None, Some(""), Some("Skills"), Some("Education"), Some("Introduction"),
     Some("Cooking"), Some("off_topic")}

-----------------------------------------------------------------------------
(* The chat page of app.py                                                 *)

\* faulty variant of clear_chat: the transcript is not emptied first
clear_chat_KeepsTranscript(has_chatbot, transcript, mem, call) ==
    IF has_chatbot
    THEN [chat_history |-> Append(transcript,
                             [role |-> "assistant", content |-> get_greeting(call)]),
          mem |-> clear_history(mem)]
    ELSE [chat_history |-> transcript, mem |-> mem]

\* clear_chat(): the transcript is emptied; with a chatbot in the session its
\* history is cleared and a new greeting opens the transcript
clear_chat(has_chatbot, transcript, mem, call) ==
    IF has_chatbot
    THEN [chat_history |-> << [role |-> "assistant",
                               content |-> get_greeting(call)] >>,
          mem |-> clear_history(mem)]
    ELSE [chat_history |-> <<>>, mem |-> mem]

-----------------------------------------------------------------------------
(* Several ProfileChatbot instances: objects and the lists they refer to   *)

LIST_IDS == {"list1", "list2", "list3"}

\* no chatbot constructed yet
NoObjects == [lists |-> [k \in LIST_IDS |-> <<>>], bots |-> <<>>]

\* a list identity no instance refers to
FreeList(h) ==
    CHOOSE k \in LIST_IDS : \A b \in 1..Len(h.bots) : h.bots[b] # k

\* faulty variant of __init__: history is one list shared by all instances
__init___SharedList(h) ==
    [lists |-> h.lists, bots |-> Append(h.bots, "list1")]

\* ProfileChatbot(rag): self.history = [] names a new, empty list
__init__(h) ==
    [lists |-> [h.lists EXCEPT ![FreeList(h)] = <<>>],
     bots  |-> Append(h.bots, FreeList(h))]

\* self._push(role, content) on instance b: append() changes the list in
\* place; the slice assignment makes the attribute name a new list
PushOn(h, b, entry) ==
    LET id       == h.bots[b]
        appended == Append(h.lists[id], entry)
        aliased  == \E c \in 1..Len(h.bots) : c # b /\ h.bots[c] = id
        grown    == [h.lists EXCEPT ![id] = appended]
    IN  IF Len(appended) > MAX_CONVERSATION_HISTORY
        THEN IF aliased
             THEN [lists |-> [grown EXCEPT ![FreeList(h)] = Window(appended)],
                   bots  |-> [h.bots EXCEPT ![b] = FreeList(h)]]
             ELSE [lists |-> [h.lists EXCEPT ![id] = Window(appended)],
                   bots  |-> h.bots]
        ELSE [lists |-> grown, bots |-> h.bots]

RECURSIVE PushAllOn(_, _, _)
PushAllOn(h, b, entries) ==
    IF entries = <<>> THEN h
    ELSE PushAllOn(PushOn(h, b, Head(entries)), b, Tail(entries))

\* instance b's get_history()
HistoryOf(h, b) == get_history(h.lists[h.bots[b]])

\* instance b's chat(query): the reply, and the objects afterwards
ChatOn(h, b, query, env) ==
    LET r == chat([history |-> HistoryOf(h, b), pushed |-> <<>>], query, env)
    IN  [reply |-> r.reply, objects |-> PushAllOn(h, b, r.mem.pushed)]

\* instance b's clear_history(): self.history.clear() empties the list in place
ClearOn(h, b) ==
    [lists |-> [h.lists EXCEPT ![h.bots[b]] = <<>>], bots |-> h.bots]

\* the state after two constructor calls
TwoChatbots == __init__(__init__(NoObjects))

\* a conversation opens with a greeting or a farewell and goes on with greetings
TwinQueries(h) ==
    IF h = <<>> THEN {ROUTINE_QUERY, "Thank you!"} ELSE {ROUTINE_QUERY}

-----------------------------------------------------------------------------
(* chunk_and_enrich_hierarchy (src/scripts/setup_vectoredb.py): the loop   *)
(* that corrects categories and tracks the hierarchy                       *)

\* str.isdigit() of one character
IsDigit(c) == c \in {"0", "1", "2", "3", "4", "5", "6", "7", "8", "9"}

\* str.isupper(): no lower-case letter and at least one upper-case letter
IsUpper(s) == Upper(s) = s /\ Lower(s) # s

\* an element as the document loader yields it
Element(text, category, emphasized) ==
    [page_content |-> text,
     metadata |-> [category |-> category,
                   emphasized_text_contents |-> emphasized,
                   filename |-> "About_me.docx"]]

\* the elements a document is made of
Elements ==
    { Element("Education", "Title", <<>>),
      Element(" Skills\n", "Title", <<"Skills">>),
      Element("   ", "Title", <<>>),
      Element("Core Stack", "NarrativeText", <<"Core Stack">>),
      Element("1. EXPERIENCE", "NarrativeText", <<>>),
      Element("TOOLS", "Header", <<>>),
      Element("Built a RAG chatbot with LangGraph.", "NarrativeText", <<"RAG">>),
      Element("Python, FAISS", "ListItem", <<>>),
      Element("AI", "UncategorizedText", <<>>) }

\* faulty variant of CorrectedCategory: the all-caps test comes first
CorrectedCategory_SubheaderFirst(el, text) ==
    LET category    == el.metadata.category
        is_bold     == el.metadata.emphasized_text_contents = <<text>>
        is_all_caps == IsUpper(text) /\ Len(text) > 3
        is_numbered == IsDigit(CharAt(text, 1))
    IN  IF category # "Title"
        THEN IF is_all_caps THEN "Subheader"
             ELSE IF is_bold \/ (is_all_caps /\ is_numbered) THEN "Header"
             ELSE category
        ELSE category

\* passes 1 and 2: the category after the visual heuristics
CorrectedCategory(el, text) ==
    LET category    == el.metadata.category
        is_bold     == el.metadata.emphasized_text_contents = <<text>>
        is_all_caps == IsUpper(text) /\ Len(text) > 3
        is_numbered == IsDigit(CharAt(text, 1))
    IN  IF category # "Title"
        THEN IF is_bold \/ (is_all_caps /\ is_numbered) THEN "Header"
             ELSE IF is_all_caps THEN "Subheader"
             ELSE category
        ELSE category

\* the state of the loop before the first element
NewChunker ==
    [title |-> "Unknown Title", header |-> "", subheader |-> "",
     sections |-> <<>>, placed |-> None, corrected |-> None]

\* sections[path].append(text) on the insertion-ordered dictionary
AppendUnder(secs, path, text) ==
    IF \E i \in 1..Len(secs) : secs[i].path = path
    THEN [i \in 1..Len(secs) |->
            IF secs[i].path = path
            THEN [path |-> path, texts |-> Append(secs[i].texts, text)]
            ELSE secs[i]]
    ELSE Append(secs, [path |-> path, texts |-> <<text>>])

\* faulty variant of Track: a Header keeps the subheader of the previous section
Track_KeepsSubheader(st, el) ==
    LET text == Strip(el.page_content) IN
    IF text = "" THEN [st EXCEPT !.placed = None, !.corrected = None]
    ELSE LET category == CorrectedCategory(el, text) IN
         IF category = "Title"
         THEN [st EXCEPT !.title = text, !.header = "", !.subheader = "",
                         !.placed = None, !.corrected = Some(category)]
         ELSE IF category = "Header"
         THEN [st EXCEPT !.header = text, !.placed = None,
                         !.corrected = Some(category)]
         ELSE IF category = "Subheader"
         THEN [st EXCEPT !.subheader = text, !.placed = None,
                         !.corrected = Some(category)]
         ELSE LET path == [source |-> el.metadata.filename, title |-> st.title,
                           header |-> st.header, subheader |-> st.subheader]
              IN  [st EXCEPT !.sections = AppendUnder(st.sections, path, text),
                             !.placed = Some(path),
                             !.corrected = Some(category)]

\* faulty variant of Track: an element with blank text is not skipped
Track_BlankNotSkipped(st, el) ==
    LET text == Strip(el.page_content)
        category == IF text = "" THEN el.metadata.category
                    ELSE CorrectedCategory(el, text) IN
         IF category = "Title"
         THEN [st EXCEPT !.title = text, !.header = "", !.subheader = "",
                         !.placed = None, !.corrected = Some(category)]
         ELSE IF category = "Header"
         THEN [st EXCEPT !.header = text, !.subheader = "", !.placed = None,
                         !.corrected = Some(category)]
         ELSE IF category = "Subheader"
         THEN [st EXCEPT !.subheader = text, !.placed = None,
                         !.corrected = Some(category)]
         ELSE LET path == [source |-> el.metadata.filename, title |-> st.title,
                           header |-> st.header, subheader |-> st.subheader]
              IN  [st EXCEPT !.sections = AppendUnder(st.sections, path, text),
                             !.placed = Some(path),
                             !.corrected = Some(category)]

\* one iteration of the loop over the elements
Track(st, el) ==
    LET text == Strip(el.page_content) IN
    IF text = "" THEN [st EXCEPT !.placed = None, !.corrected = None]
    ELSE LET category == CorrectedCategory(el, text) IN
         IF category = "Title"
         THEN [st EXCEPT !.title = text, !.header = "", !.subheader = "",
                         !.placed = None, !.corrected = Some(category)]
         ELSE IF category = "Header"
         THEN [st EXCEPT !.header = text, !.subheader = "", !.placed = None,
                         !.corrected = Some(category)]
         ELSE IF category = "Subheader"
         THEN [st EXCEPT !.subheader = text, !.placed = None,
                         !.corrected = Some(category)]
         ELSE LET path == [source |-> el.metadata.filename, title |-> st.title,
                           header |-> st.header, subheader |-> st.subheader]
              IN  [st EXCEPT !.sections = AppendUnder(st.sections, path, text),
                             !.placed = Some(path),
                             !.corrected = Some(category)]

-----------------------------------------------------------------------------
(* chunk_and_enrich_hierarchy, pass 4: the sections become chunks          *)

\* settings.CHUNK_WARNING_THRESHOLD is int(os.getenv("CHUNK_THRESHOLD", "500"))
\* and settings.CHUNK_OVERLAP_SIZE is int(os.getenv("CHUNK_OVERLAP_SIZE",
\* "50")): the ingestion modelled here runs with CHUNK_THRESHOLD=10 and
\* CHUNK_OVERLAP_SIZE=2, so that sections of a few short paragraphs reach
\* the threshold
CHUNK_WARNING_THRESHOLD == 10
CHUNK_OVERLAP_SIZE == 2

\* the separators handed to RecursiveCharacterTextSplitter
SEPARATORS == <<"\n\n", "\n", ". ", " ", "">>

\* the class of a character for the pre-tokenizer of cl100k_base
CharClass(c) ==
    IF c \in DOMAIN TO_UPPER \/ c \in DOMAIN TO_LOWER THEN "letter"
    ELSE IF c = " " \/ c = "\t" THEN "space"
    ELSE IF c = "\n" \/ c = "\r" THEN "newline"
    ELSE IF IsDigit(c) THEN "digit"
    ELSE "punctuation"

\* get_token_count: len(encoding.encode(text)).  The encoding first cuts the
\* text into pieces (a run of letters, of digits, of punctuation or of line
\* breaks, each with the blanks before it) and then encodes every piece by
\* byte pairs; the count here is the number of pieces, which is the token
\* count when every piece is in the vocabulary and a lower bound otherwise.
\* It is never more than the number of characters of an ASCII text.
get_token_count(text) ==
    Cardinality({i \in 1..Len(text) :
        /\ CharClass(CharAt(text, i)) # "space"
        /\ \/ i = 1
           \/ CharClass(CharAt(text, i - 1)) # CharClass(CharAt(text, i))})

\* the first position at or after from where sep starts in text, 0 if none
FirstAt(text, sep, from) ==
    LET at == {i \in from..(Len(text) - Len(sep) + 1) :
                 SubSeq(text, i, i + Len(sep) - 1) = sep}
    IN  IF at = {} THEN 0 ELSE CHOOSE i \in at : \A j \in at : i <= j

RECURSIVE SplitFrom(_, _, _, _)
\* the pieces of text from position start on, each later piece beginning
\* with the separator that cut it off
SplitFrom(text, sep, start, from) ==
    LET i == FirstAt(text, sep, from)
    IN  IF i = 0 THEN <<SubSeq(text, start, Len(text))>>
        ELSE <<SubSeq(text, start, i - 1)>>
                 \o SplitFrom(text, sep, i, i + Len(sep))

\* the splitter's cut of a text at one separator (the separator is kept,
\* empty pieces are dropped; the empty separator cuts between characters)
SplitKeeping(text, sep) ==
    IF sep = "" THEN [i \in 1..Len(text) |-> CharAt(text, i)]
    ELSE SelectSeq(SplitFrom(text, sep, 1, 1), LAMBDA piece : piece # "")

\* the text of one chunk: the pieces joined and stripped, nothing if blank
JoinDocs(pieces) ==
    LET text == Strip(Join(pieces, ""))
    IN  IF text = "" THEN <<>> ELSE <<text>>

RECURSIVE DropForOverlap(_, _, _)
\* the pieces kept for the next chunk: pieces leave from the front until
\* the rest is within the overlap and has room for the next piece
DropForOverlap(current, total, len) ==
    IF total > CHUNK_OVERLAP_SIZE
         \/ (total + len > CHUNK_WARNING_THRESHOLD /\ total > 0)
    THEN DropForOverlap(Tail(current),
                        total - get_token_count(Head(current)), len)
    ELSE [current |-> current, total |-> total]

RECURSIVE MergeSplits(_, _, _)
\* the splitter merges small pieces into chunks of at most chunk_size tokens
MergeSplits(splits, current, total) ==
    IF splits = <<>> THEN JoinDocs(current)
    ELSE LET d   == Head(splits)
             len == get_token_count(d)
         IN  IF total + len > CHUNK_WARNING_THRESHOLD /\ current # <<>>
             THEN LET kept == DropForOverlap(current, total, len)
                  IN  JoinDocs(current)
                          \o MergeSplits(Tail(splits), Append(kept.current, d),
                                         kept.total + len)
             ELSE MergeSplits(Tail(splits), Append(current, d), total + len)

\* the first separator that occurs in the text, the last one if none does
SeparatorFor(text, separators) ==
    LET found == {i \in 1..Len(separators) :
                    separators[i] = "" \/ Contains(text, separators[i])}
    IN  IF found = {} THEN Len(separators)
        ELSE CHOOSE i \in found : \A j \in found : i <= j

RECURSIVE SplitPieces(_, _, _)
RECURSIVE split_text_with(_, _)
\* the pieces of one cut in turn: small ones are gathered and merged, a
\* large one is split again at the separators that remain
SplitPieces(splits, good, remaining) ==
    IF splits = <<>> THEN MergeSplits(good, <<>>, 0)
    ELSE LET piece == Head(splits)
         IN  IF get_token_count(piece) < CHUNK_WARNING_THRESHOLD
             THEN SplitPieces(Tail(splits), Append(good, piece), remaining)
             ELSE MergeSplits(good, <<>>, 0)
                      \o (IF remaining = <<>> THEN <<piece>>
                          ELSE split_text_with(piece, remaining))
                      \o SplitPieces(Tail(splits), <<>>, remaining)

split_text_with(text, separators) ==
    LET i == SeparatorFor(text, separators)
    IN  SplitPieces(SplitKeeping(text, separators[i]), <<>>,
                    SubSeq(separators, i + 1, Len(separators)))

\* text_splitter.split_text(text)
split_text(text) == split_text_with(text, SEPARATORS)

\* the sub_chunks of one section, and whether the splitter was asked for them
SubChunks(full_section_text) ==
    IF Len(full_section_text) < CHUNK_WARNING_THRESHOLD
    THEN [split |-> FALSE, sub_chunks |-> <<full_section_text>>]
    ELSE [split |-> TRUE, sub_chunks |-> split_text(full_section_text)]

\* the context path put in front of a chunk
ContextPath(path) ==
    "Source: " \o path.source \o " > Context: " \o path.title
        \o " > Section: " \o path.header \o " > Sub-Section: " \o path.subheader
        \o "\n"

\* the enriched document of one sub-chunk; el is the loop variable of the
\* element loop, still bound to the last element of the input
EnrichedDoc(path, chunk, el) ==
    LET full_content == ContextPath(path) \o "Content: " \o chunk
    IN  [page_content |-> full_content,
         metadata |-> [title |-> path.title,
                       header |-> path.header,
                       subheader |-> path.subheader,
                       source |-> path.source,
                       original_category |-> el.metadata.category,
                       tokens |-> get_token_count(full_content)]]

\* pass 4 for one section: its joined text, its sub_chunks and its documents
EmitSection(section, el) ==
    LET full_section_text == Join(section.texts, "\n\n")
        made == SubChunks(full_section_text)
        sub_chunks == made.sub_chunks
    IN  [path |-> section.path,
         full_section_text |-> full_section_text,
         split |-> made.split,
         sub_chunks |-> sub_chunks,
         docs |-> [i \in 1..Len(sub_chunks) |->
                      EnrichedDoc(section.path, sub_chunks[i], el)]]

RECURSIVE Flatten(_)
Flatten(seqs) ==
    IF seqs = <<>> THEN <<>> ELSE Head(seqs) \o Flatten(Tail(seqs))

\* faulty variant of Emit: the category is read from the first element
Emit_FirstElement(secs, elems) ==
    LET el  == elems[1]
        log == [i \in 1..Len(secs) |-> EmitSection(secs[i], el)]
    IN  [final_chunks |-> Flatten([i \in 1..Len(log) |-> log[i].docs]),
         split_log |-> [i \in 1..Len(log) |->
                          [path |-> log[i].path,
                           full_section_text |-> log[i].full_section_text,
                           split |-> log[i].split,
                           sub_chunks |-> log[i].sub_chunks]]]

\* pass 4: every section in insertion order.  With no element the loop
\* variable is unbound, but then there is no section and it is never read.
Emit(secs, elems) ==
    LET el  == elems[Len(elems)]
        log == [i \in 1..Len(secs) |-> EmitSection(secs[i], el)]
    IN  [final_chunks |-> Flatten([i \in 1..Len(log) |-> log[i].docs]),
         split_log |-> [i \in 1..Len(log) |->
                          [path |-> log[i].path,
                           full_section_text |-> log[i].full_section_text,
                           split |-> log[i].split,
                           sub_chunks |-> log[i].sub_chunks]]]

-----------------------------------------------------------------------------
(* One ProfileChatbot called from two threads                              *)

THREADS == {"t1", "t2"}

\* what each thread asks, every time
QueryOf == [t1 |-> "What are your technical skills?", t2 |-> ROUTINE_QUERY]

\* the collaborators answer every call
RaceEnv ==
    [smalltalk |-> Returns(LLM_TEXT.greeting),
     graph |-> [router |-> Returns(" skills.\n"),
                retriever |-> [raised |-> FALSE, chunks |-> <<>>],
                validator |-> Returns(" pass\n"),
                gen |-> TRUE]]

\* the locals of a thread outside chat()
NoFrame == [query |-> "", reply |-> "", sliced |-> <<>>]

\* chat() up to its first _push: the greeting or farewell reply, or the
\* graph's reply for the history as _format_history() reads it now
ReplyFor(h, query) ==
    chat([history |-> h, pushed |-> <<>>], query, RaceEnv).reply

\* the entry a thread appends at a position of chat()
EntryAt(at, fr) ==
    IF at = "push_user" THEN [role |-> "user", content |-> fr.query]
    ELSE [role |-> "assistant", content |-> fr.reply]

\* the positions of one _push after its append
Trimming(at) ==
    IF at = "push_user" THEN "trim_user" ELSE "trim_assistant"

Rebinding(at) ==
    IF at = "trim_user" THEN "rebind_user" ELSE "rebind_assistant"

\* where chat() goes on after a _push
AfterPush(at) ==
    IF at \in {"trim_user", "rebind_user"} THEN "push_assistant" ELSE "done"

-----------------------------------------------------------------------------
(* Actions: one per public method                                          *)

Init ==
    /\ history = NewMemory.history
    /\ pushed = NewMemory.pushed
    /\ lastOp = "init"
    /\ lastQuery = ""
    /\ ret = [raised |-> FALSE, value |-> ""]
    /\ run = NoRun
    /\ smalltalk = <<>>
    /\ store_on_disk = None
    /\ vector_store = None
    /\ ragOut = NoRagCall
    /\ _engine = None
    /\ chatbot = FALSE
    /\ session_history = <<>>
    /\ lists = TwoChatbots.lists
    /\ bots = TwoChatbots.bots
    /\ caller = [bot |-> 0, op |-> "init", reply |-> ""]
    /\ elements = <<>>
    /\ current_title = NewChunker.title
    /\ current_header = NewChunker.header
    /\ current_subheader = NewChunker.subheader
    /\ sections = NewChunker.sections
    /\ placed = NewChunker.placed
    /\ corrected = NewChunker.corrected
    /\ final_chunks = None
    /\ split_log = <<>>
    /\ self_history = <<>>
    /\ all_appended = <<>>
    /\ pc = [t \in THREADS |-> "ready"]
    /\ frame = [t \in THREADS |-> NoFrame]
    /\ calls = 0

Memory == [history |-> history, pushed |-> pushed]

Turn(query, r) ==
    /\ history' = r.mem.history
    /\ pushed' = r.mem.pushed
    /\ lastOp' = "chat"
    /\ lastQuery' = query
    /\ ret' = [raised |-> r.raised, value |-> r.reply]
    /\ run' = r.run
    /\ smalltalk' = r.smalltalk

\* chat(query) with the query and the collaborators' outcomes drawn from the
\* given sets; without mayRaise the greeting / farewell generation succeeds
ChatFrom(queries, mayRaise, oracles) ==
    /\ \E query \in queries :
          IF ChatPath(query) = "graph"
          THEN \E o \in oracles :
                  \E r \in {chat(Memory, query, [smalltalk |-> Raises, graph |-> o])} :
                      Turn(query, r)
          ELSE \E c \in {x \in SmallTalkOutcomes(ChatPath(query)) : mayRaise \/ ~x.raised} :
                  \E r \in {chat(Memory, query, [smalltalk |-> c, graph |-> NoOracle])} :
                      Turn(query, r)
    /\ UNCHANGED exceptChat

Chat ==
    /\ Len(pushed) + 2 <= 2 * MaxTurns
    /\ IF MayVary
       THEN ChatFrom(Queries, TRUE, GraphOracles)
       ELSE ChatFrom({ROUTINE_QUERY}, FALSE, GraphOracles)

GetGreeting ==
    /\ \E c \in SmallTalkOutcomes("greeting") :
          /\ ret' = [raised |-> FALSE, value |-> get_greeting(c)]
          /\ smalltalk' = <<c>>
    /\ lastOp' = "get_greeting"
    /\ UNCHANGED <<history, pushed, lastQuery, run>>
    /\ UNCHANGED exceptChat

GetFarewell ==
    /\ \E c \in SmallTalkOutcomes("farewell") :
          /\ ret' = [raised |-> FALSE, value |-> get_farewell(c)]
          /\ smalltalk' = <<c>>
    /\ lastOp' = "get_farewell"
    /\ UNCHANGED <<history, pushed, lastQuery, run>>
    /\ UNCHANGED exceptChat

ClearHistory ==
    /\ history' = clear_history(Memory).history
    /\ pushed' = clear_history(Memory).pushed
    /\ lastOp' = "clear_history"
    /\ ret' = [raised |-> FALSE, value |-> ""]
    /\ smalltalk' = <<>>
    /\ UNCHANGED <<lastQuery, run>>
    /\ UNCHANGED exceptChat

Next == Chat \/ GetGreeting \/ GetFarewell \/ ClearHistory

Spec == Init /\ [][Next]_vars

-----------------------------------------------------------------------------
(* Short-conversation specification: a few chat() turns, each of them a    *)
(* greeting, a farewell or a question, so that the history holds entries   *)
(* that all differ                                                         *)

\* the Router call raises, or the graph falls back on an empty retrieval
BriefOracles ==
    { o \in Oracles(RouterReplies, ValidatorReplies, ChunkLists) :
        /\ o.router \in {Raises, Returns(" skills.\n")}
        /\ o.retriever = [raised |-> FALSE, chunks |-> <<>>]
        /\ o.validator = Returns("FAIL")
        /\ o.gen }

ChatBrief ==
    /\ Len(pushed) + 2 <= 2 * MaxBriefTurns
    /\ ChatFrom(Queries, FALSE, BriefOracles)

NextBrief == ChatBrief

SpecBrief == Init /\ [][NextBrief]_vars

-----------------------------------------------------------------------------
(* Chat-page specification: the session of app.py around one chatbot       *)

\* render_chat() on a session without chatbot: get_rag_engine() and the
\* constructor succeed or raise; on success the greeting opens the transcript
Bootstrap ==
    /\ ~chatbot
    /\ \E started \in BOOLEAN :
          IF started
          THEN \E c \in SmallTalkOutcomes("greeting") :
                  /\ chatbot' = TRUE
                  /\ history' = NewMemory.history
                  /\ pushed' = NewMemory.pushed
                  /\ smalltalk' = <<c>>
                  /\ ret' = [raised |-> FALSE, value |-> get_greeting(c)]
                  /\ session_history' = Append(session_history,
                        [role |-> "assistant", content |-> get_greeting(c)])
          ELSE /\ ret' = [raised |-> TRUE, value |-> ""]
               /\ UNCHANGED <<chatbot, history, pushed, smalltalk, session_history>>
    /\ lastOp' = "render_chat"
    /\ UNCHANGED <<lastQuery, run>>
    /\ UNCHANGED exceptApp

\* render_chat() with text in the chat input: the query, then the reply of
\* chat(), are all_appended to the transcript
Submit ==
    /\ chatbot
    /\ Len(pushed) + 2 <= 2 * MaxBriefTurns
    /\ \E query \in Queries :
          \E env \in IF ChatPath(query) = "graph"
                     THEN {[smalltalk |-> Raises, graph |-> o] : o \in BriefOracles}
                     ELSE {[smalltalk |-> Returns(LLM_TEXT[ChatPath(query)]),
                            graph |-> NoOracle]} :
              \E r \in {chat(Memory, query, env)} :
                  /\ Turn(query, r)
                  /\ session_history' =
                        IF r.raised
                        THEN Append(session_history, [role |-> "user", content |-> query])
                        ELSE session_history \o
                               << [role |-> "user", content |-> query],
                                  [role |-> "assistant", content |-> r.reply] >>
    /\ UNCHANGED chatbot
    /\ UNCHANGED exceptApp

\* the Clear Chat button
ClearChat ==
    /\ \E c \in SmallTalkOutcomes("greeting") :
          \E r \in {clear_chat(chatbot, session_history, Memory, c)} :
              /\ session_history' = r.chat_history
              /\ history' = r.mem.history
              /\ pushed' = r.mem.pushed
              /\ smalltalk' = IF chatbot THEN <<c>> ELSE <<>>
              /\ ret' = [raised |-> FALSE,
                         value |-> IF chatbot THEN get_greeting(c) ELSE ""]
    /\ lastOp' = "clear_chat"
    /\ UNCHANGED <<chatbot, lastQuery, run>>
    /\ UNCHANGED exceptApp

NextApp == Bootstrap \/ Submit \/ ClearChat

SpecApp == Init /\ [][NextApp]_vars

-----------------------------------------------------------------------------
(* Two-instance specification: calls on two chatbots, in any order         *)

Objects == [lists |-> lists, bots |-> bots]

ChatOnInstance ==
    /\ \E b \in 1..Len(bots) :
          \E query \in TwinQueries(HistoryOf(Objects, b)) :
              \E r \in {ChatOn(Objects, b, query,
                               [smalltalk |-> Returns(LLM_TEXT[ChatPath(query)]),
                                graph |-> NoOracle])} :
                  /\ lists' = r.objects.lists
                  /\ bots' = r.objects.bots
                  /\ caller' = [bot |-> b, op |-> "chat", reply |-> r.reply]
    /\ UNCHANGED exceptTwin

ClearOnInstance ==
    /\ \E b \in 1..Len(bots) :
          /\ lists' = ClearOn(Objects, b).lists
          /\ bots' = ClearOn(Objects, b).bots
          /\ caller' = [bot |-> b, op |-> "clear_history", reply |-> ""]
    /\ UNCHANGED exceptTwin

NextTwin == ChatOnInstance \/ ClearOnInstance

SpecTwin == Init /\ [][NextTwin]_vars

-----------------------------------------------------------------------------
(* Race specification: a chatbot is used one call at a time, and at some   *)
(* point two threads each call chat() on it once.  chat() and _push take   *)
(* no lock, so the two threads' steps interleave; a step is what a thread  *)
(* does between two accesses to self.history                               *)

\* the threads inside chat()
InChat == {t \in THREADS : pc[t] \notin {"ready", "done"}}

\* a chat() call that runs from entry to return while no other is under way
SoloCall ==
    /\ InChat = {}
    /\ calls < MaxSoloCalls
    /\ \E r \in {chat([history |-> self_history, pushed |-> all_appended],
                       QueryOf.t1, RaceEnv)} :
          /\ self_history' = r.mem.history
          /\ all_appended' = r.mem.pushed
    /\ calls' = calls + 1
    /\ UNCHANGED <<pc, frame>>
    /\ UNCHANGED exceptRace

\* a thread enters chat(): lines 238-268, the reply is ready to be recorded
Call(t) ==
    /\ pc[t] = "ready"
    /\ frame' = [frame EXCEPT ![t] =
                    [query |-> QueryOf[t],
                     reply |-> ReplyFor(self_history, QueryOf[t]),
                     sliced |-> <<>>]]
    /\ pc' = [pc EXCEPT ![t] = "push_user"]
    /\ UNCHANGED <<self_history, all_appended, calls>>
    /\ UNCHANGED exceptRace

\* _push: self.history.append(...)
AppendEntry(t) ==
    /\ pc[t] \in {"push_user", "push_assistant"}
    /\ self_history' = Append(self_history, EntryAt(pc[t], frame[t]))
    /\ all_appended' = Append(all_appended, EntryAt(pc[t], frame[t]))
    /\ pc' = [pc EXCEPT ![t] = Trimming(pc[t])]
    /\ UNCHANGED <<frame, calls>>
    /\ UNCHANGED exceptRace

\* _push: the length test, and the slice self.history[-MAX:] when it is taken
Slice(t) ==
    /\ pc[t] \in {"trim_user", "trim_assistant"}
    /\ IF Len(self_history) > MAX_CONVERSATION_HISTORY
       THEN /\ frame' = [frame EXCEPT ![t].sliced = Window(self_history)]
            /\ pc' = [pc EXCEPT ![t] = Rebinding(pc[t])]
       ELSE /\ frame' = IF AfterPush(pc[t]) = "done"
                        THEN [frame EXCEPT ![t] = NoFrame] ELSE frame
            /\ pc' = [pc EXCEPT ![t] = AfterPush(pc[t])]
    /\ UNCHANGED <<self_history, all_appended, calls>>
    /\ UNCHANGED exceptRace

\* _push: self.history = <the slice>
Rebind(t) ==
    /\ pc[t] \in {"rebind_user", "rebind_assistant"}
    /\ self_history' = frame[t].sliced
    /\ frame' = IF AfterPush(pc[t]) = "done"
                THEN [frame EXCEPT ![t] = NoFrame]
                ELSE [frame EXCEPT ![t].sliced = <<>>]
    /\ pc' = [pc EXCEPT ![t] = AfterPush(pc[t])]
    /\ UNCHANGED <<all_appended, calls>>
    /\ UNCHANGED exceptRace

NextRace ==
    \/ SoloCall
    \/ \E t \in THREADS : Call(t) \/ AppendEntry(t) \/ Slice(t) \/ Rebind(t)

SpecRace == Init /\ [][NextRace]_vars

-----------------------------------------------------------------------------
(* Chunker specification: the loop of chunk_and_enrich_hierarchy, one      *)
(* element of the document per step, and then pass 4                       *)

Chunker ==
    [title |-> current_title, header |-> current_header,
     subheader |-> current_subheader, sections |-> sections, placed |-> placed,
     corrected |-> corrected]

ProcessElement ==
    /\ final_chunks = None
    /\ Len(elements) < MaxElements
    /\ \E el \in Elements :
          \E st \in {Track(Chunker, el)} :
              /\ elements' = Append(elements, el)
              /\ current_title' = st.title
              /\ current_header' = st.header
              /\ current_subheader' = st.subheader
              /\ sections' = st.sections
              /\ placed' = st.placed
              /\ corrected' = st.corrected
    /\ UNCHANGED <<final_chunks, split_log>>
    /\ UNCHANGED exceptChunk

\* the loop is over: pass 4 runs and the function returns final_chunks
ReturnChunks ==
    /\ final_chunks = None
    /\ \E out \in {Emit(sections, elements)} :
          /\ final_chunks' = Some(out.final_chunks)
          /\ split_log' = out.split_log
    /\ UNCHANGED <<elements, current_title, current_header, current_subheader,
                   sections, placed, corrected>>
    /\ UNCHANGED exceptChunk

NextChunk == ProcessElement \/ ReturnChunks

SpecChunk == Init /\ [][NextChunk]_vars

-----------------------------------------------------------------------------
(* Retrieval specification: one RAGEngine, the store directory, and the    *)
(* ingestion script that writes it                                         *)

\* scripts/setup_vectoredb.py: the index is built and saved, replacing any
\* earlier one
BuildVectorStore ==
    /\ \E index \in Indexes : store_on_disk' = Some(index)
    /\ UNCHANGED <<vector_store, ragOut, _engine>>
    /\ UNCHANGED exceptRag

Load ==
    /\ \E readable \in BOOLEAN :
          \E r \in {load(vector_store, store_on_disk, readable)} :
              /\ vector_store' = r.vector_store
              /\ ragOut' = [op |-> "load", query |-> "", topic |-> None,
                            raised |-> r.raised, error |-> r.error,
                            message |-> r.message, search_filter |-> None,
                            value |-> <<>>]
    /\ UNCHANGED <<store_on_disk, _engine>>
    /\ UNCHANGED exceptRag

Retrieve ==
    /\ \E query \in RagQueries, topic \in RagTopics :
          \E r \in retrieve(vector_store, query, topic) :
              ragOut' = [op |-> "retrieve", query |-> query, topic |-> topic,
                         raised |-> r.raised, error |-> r.error,
                         message |-> "", search_filter |-> r.search_filter,
                         value |-> r.value]
    /\ UNCHANGED <<store_on_disk, vector_store, _engine>>
    /\ UNCHANGED exceptRag

\* get_rag_engine() is called; the engine it returns is the singleton
GetRagEngine ==
    /\ \E readable \in BOOLEAN :
          \E r \in {get_rag_engine(_engine, store_on_disk, readable)} :
              /\ _engine' = r.engine
              /\ ragOut' = [op |-> "get_rag_engine", query |-> "",
                            topic |-> None, raised |-> r.raised,
                            error |-> r.error, message |-> r.message,
                            search_filter |-> None, value |-> <<>>]
    /\ UNCHANGED <<store_on_disk, vector_store>>
    /\ UNCHANGED exceptRag

NextRag == BuildVectorStore \/ Load \/ Retrieve \/ GetRagEngine

SpecRag == Init /\ [][NextRag]_vars

-----------------------------------------------------------------------------
(* Single-turn specification: the first chat() of a session, with the query *)
(* and the raw model replies drawn from wider sets                         *)

WideQueries ==
    { "hi", "Hello", "  HEY  ", "Good Morning", "good afternoon\n", "Greetings",
      "Hello!", "hi there", "hello.",
      "Thank you!", "bye", "Thanks, that helps", " GOODBYE ", "See you later",
      "Which projects have you stopped working on?",
      "hello and bye",
      "What are your technical skills?", "What is the capital of France?",
      "", "   " }

ReplyPrefixes == {"", " ", "\"", "Topic: "}

ReplyCores ==
    { "Skills", "skills", "SKILLS", "Licences and Certifications",
      "role suitability", "off_topic", "Off_Topic", "Skill", "Cooking", "" }

ReplySuffixes == {"", ".", "\n", "!", ".\"", "' "}

WideRouterReplies ==
    {p \o c \o x : p \in ReplyPrefixes, c \in ReplyCores, x \in ReplySuffixes}

WideValidatorReplies ==
    {"PASS", " pass\n", "FAIL", "Bypass", "The context does not pass.", ""}

WideOracles ==
    Consulted(Oracles(WideRouterReplies, WideValidatorReplies, ChunkLists))

\* the first call on a newly constructed chatbot
ChatFresh ==
    /\ lastOp = "init"
    /\ ChatFrom(WideQueries, TRUE, WideOracles)

NextTurn == ChatFresh

SpecTurn == Init /\ [][NextTurn]_vars

-----------------------------------------------------------------------------
(* Properties                                                              *)

ChatDone == lastOp = "chat"

TraceNodes == [i \in 1..Len(run.trace) |-> run.trace[i].node]

Executed(node) == \E i \in 1..Len(run.trace) : run.trace[i].node = node

TimesExecuted(node) == Cardinality({i \in 1..Len(run.trace) : run.trace[i].node = node})

TERMINALS == {"off_topic", "responder", "insufficient"}

LastStep == run.trace[Len(run.trace)]

UserEntry(text) == [role |-> "user", content |-> text]
AssistantEntry(text) == [role |-> "assistant", content |-> text]

\* the last two entries of get_history() are the query and the returned reply
TurnIsLast(h) ==
    /\ Len(h) >= 2
    /\ h[Len(h) - 1] = UserEntry(lastQuery)
    /\ h[Len(h)] = AssistantEntry(ret.value)

\* C1: after any sequence of chat, clear_history, get_greeting and
\* get_farewell calls the history holds at most MAX_CONVERSATION_HISTORY
\* entries, and they are exactly the most recently pushed ones, in push order.
HistoryBound ==
    LET h == get_history(history)
        dropped == Len(pushed) - Len(h)
    IN  /\ Len(h) <= MAX_CONVERSATION_HISTORY
        /\ Len(h) = IF Len(pushed) <= MAX_CONVERSATION_HISTORY
                    THEN Len(pushed) ELSE MAX_CONVERSATION_HISTORY
        /\ \A i \in 1..Len(h) : h[i] = pushed[dropped + i]

\* entries were evicted, and the oldest pushed entry is no longer retained
HistoryEvicted ==
    /\ Len(pushed) > MAX_CONVERSATION_HISTORY
    /\ Len(history) = MAX_CONVERSATION_HISTORY
    /\ \A i \in 1..Len(history) : history[i] # pushed[1]

\* C2: whatever the language model, the retriever or the graph do, chat()
\* returns a string and raises nothing.
ChatAlwaysReturns ==
    ChatDone => (~ret.raised /\ ret.value \in STRING)

\* a chat() call returned although a node of the graph raised
ChatReturnedAfterFailure ==
    ChatDone /\ run.invoked /\ run.raised /\ ~ret.raised

\* C3 as stated: whenever the verdict is FAIL the returned reply is the text
\* of the Insufficient-Context fallback and the Responder did not run.
ValidatorFailGivesFallbackText ==
    (ChatDone /\ run.invoked /\ run.state.validation = "FAIL") =>
        /\ ~Executed("responder")
        /\ LastStep.node = "insufficient"
        /\ ~LastStep.raised
        /\ ret.value = Strip(LastStep.content)

\* C3 amended: whenever the verdict is FAIL the Responder does not run and the
\* Insufficient-Context fallback is the last node; the reply is its text, or
\* the apology when its language-model call raises.
ValidatorFailGate ==
    (ChatDone /\ run.invoked /\ run.state.validation = "FAIL") =>
        /\ ~Executed("responder")
        /\ LastStep.node = "insufficient"
        /\ ret.value = IF LastStep.raised THEN APOLOGY ELSE Strip(LastStep.content)
        /\ ~LastStep.raised => ret.value = run.state.response

\* a turn with verdict FAIL answered by the fallback's text
ValidatorFailAnswered ==
    /\ ChatDone /\ run.invoked /\ run.state.validation = "FAIL"
    /\ LastStep.node = "insufficient" /\ ~LastStep.raised
    /\ ret.value = Strip(LLM_TEXT.insufficient)

\* the surrounding characters the normalisation is said to remove
SURROUNDING ==
    WHITESPACE \cup {".", ",", ";", ":", "!", "?", "\"", "'"}

\* C4: the topic the router stores is a key of TOPIC_MAP in its canonical
\* spelling or off_topic, and a raw reply that, stripped of surrounding
\* whitespace, punctuation and quotes, equals no key ignoring case gives
\* off_topic.
RouterTopicClosed ==
    (run.invoked /\ ~run.trace[1].raised) =>
        LET topic == run.state.topic
            bare  == StripChars(run.trace[1].content, SURROUNDING)
        IN  /\ run.trace[1].node = "router"
            /\ \/ topic = "off_topic"
               \/ \E i \in 1..Len(TOPIC_MAP) : topic = TOPIC_MAP[i]
            /\ (\A i \in 1..Len(TOPIC_MAP) : Lower(TOPIC_MAP[i]) # Lower(bare))
                  => topic = "off_topic"

\* the router turned a reply in another spelling into the canonical key
RouterCanonicalised ==
    /\ run.invoked /\ ~run.trace[1].raised
    /\ run.state.topic = "Licences and Certifications"
    /\ run.trace[1].content # run.state.topic

\* C5 as stated: whenever the router returns off_topic, neither Retriever,
\* Validator nor Responder runs and the reply is the Off-Topic fallback's text.
OffTopicGivesRedirectText ==
    (ChatDone /\ run.invoked /\ run.state.topic = "off_topic") =>
        /\ ~Executed("retriever") /\ ~Executed("validator") /\ ~Executed("responder")
        /\ LastStep.node = "off_topic"
        /\ ~LastStep.raised
        /\ ret.value = Strip(LastStep.content)

\* C5 amended: whenever the router returns off_topic, neither Retriever,
\* Validator nor Responder runs and the Off-Topic fallback is the last node;
\* the reply is its text, or the apology when its language-model call raises.
OffTopicGate ==
    (ChatDone /\ run.invoked /\ run.state.topic = "off_topic") =>
        /\ ~Executed("retriever") /\ ~Executed("validator") /\ ~Executed("responder")
        /\ TraceNodes = <<"router", "off_topic">>
        /\ ret.value = IF LastStep.raised THEN APOLOGY ELSE Strip(LastStep.content)
        /\ ~LastStep.raised => ret.value = run.state.response

\* an off_topic turn answered by the redirect
OffTopicAnswered ==
    /\ ChatDone /\ run.invoked /\ run.state.topic = "off_topic"
    /\ TraceNodes = <<"router", "off_topic">>
    /\ ret.value = Strip(LLM_TEXT.off_topic)

NoNodeTwice == \A n \in NODES : TimesExecuted(n) <= 1

\* C6 as stated: every invocation starts at the router and ends in exactly
\* one terminal node, which sets response; no node runs twice.
InvocationEndsInTerminal ==
    run.invoked =>
        /\ run.trace[1].node = "router"
        /\ NoNodeTwice
        /\ Cardinality({n \in TERMINALS : Executed(n)}) = 1
        /\ LastStep.node \in TERMINALS
        /\ ~LastStep.raised
        /\ run.state.response = Strip(LastStep.content)

\* C6 amended: every invocation starts at the router and no node runs twice;
\* an invocation in which no node raises ends in exactly one terminal node,
\* which is the last node and sets response; an invocation in which a node
\* raises stops at that node with response unset.
InvocationShape ==
    run.invoked =>
        /\ run.trace[1].node = "router"
        /\ NoNodeTwice
        /\ \A i \in 1..(Len(run.trace) - 1) :
              /\ ~run.trace[i].raised
              /\ run.trace[i].node \notin TERMINALS
        /\ run.raised = LastStep.raised
        /\ ~run.raised =>
              /\ LastStep.node \in TERMINALS
              /\ Cardinality({n \in TERMINALS : Executed(n)}) = 1
              /\ run.state.response = Strip(LastStep.content)
        /\ run.raised => run.state.response = ""

\* an invocation that went through the validator to the fallback
InvocationThroughFallback ==
    /\ run.invoked /\ ~run.raised
    /\ TraceNodes = <<"router", "retriever", "validator", "insufficient">>

\* C7: a query whose trimmed, lower-cased form is a greeting word or contains
\* a farewell keyword is answered by the greeting or farewell generator, and
\* no node of the graph runs.
SmallTalkBypassesGraph ==
    LET lower == Strip(Lower(lastQuery)) IN
    /\ (ChatDone /\ lower \in GREETING_WORDS) =>
          /\ ~run.invoked /\ run.trace = <<>>
          /\ ret.value \in {get_greeting(c) : c \in SmallTalkOutcomes("greeting")}
    /\ (ChatDone /\ lower \notin GREETING_WORDS
            /\ \E w \in FAREWELL_WORDS : Contains(lower, w)) =>
          /\ ~run.invoked /\ run.trace = <<>>
          /\ ret.value \in {get_farewell(c) : c \in SmallTalkOutcomes("farewell")}

\* a padded, upper-case greeting was answered by the greeting generator
PaddedGreetingAnswered ==
    /\ ChatDone /\ lastQuery = "  HEY  "
    /\ ~run.invoked
    /\ ret.value = Strip(LLM_TEXT.greeting)

\* C8: chat("Hello!") bypasses the graph, returns a greeting, and the history
\* grows by exactly two entries, user then assistant.
HelloBypassesGraph ==
    (ChatDone /\ lastQuery = "Hello!") =>
        /\ ~run.invoked
        /\ ~Executed("router") /\ ~Executed("retriever") /\ ~Executed("validator")
        /\ ret.value \in {get_greeting(c) : c \in SmallTalkOutcomes("greeting")}
        /\ history = <<UserEntry("Hello!"), AssistantEntry(ret.value)>>

\* C9: every chat(query) call appends exactly the query as a user entry and
\* then the returned reply as an assistant entry, and these are the last two
\* entries of get_history() right after the call.
ChatRecordsTurn ==
    [][ lastOp' = "chat" =>
          /\ pushed' = pushed \o <<UserEntry(lastQuery'), AssistantEntry(ret'.value)>>
          /\ LET h == get_history(history')
             IN  /\ Len(h) >= 2
                 /\ h[Len(h) - 1] = UserEntry(lastQuery')
                 /\ h[Len(h)] = AssistantEntry(ret'.value)
                 /\ \/ Len(h) = Len(history) + 2
                    \/ Len(h) = MAX_CONVERSATION_HISTORY ]_vars

\* a graph turn was recorded on a history that was already full
FullHistoryTurnRecorded ==
    /\ ChatDone /\ run.invoked
    /\ Len(pushed) > MAX_CONVERSATION_HISTORY
    /\ TurnIsLast(history)

\* C10: when a node raises during graph.invoke, chat() returns the fixed
\* apology and records the turn with the query and that apology.
GraphFailureApology ==
    (ChatDone /\ run.invoked /\ run.raised) =>
        /\ ret = [raised |-> FALSE, value |-> APOLOGY]
        /\ TurnIsLast(get_history(history))
        /\ history[Len(history)] = AssistantEntry(APOLOGY)

\* the fallback node raised after the validator's FAIL
FallbackNodeRaised ==
    /\ ChatDone /\ run.invoked /\ run.raised
    /\ LastStep.node = "insufficient"
    /\ ret.value = APOLOGY

\* C11: get_greeting() and get_farewell() return the language model's reply
\* (trimmed) when the generation call succeeds and their own static fallback
\* text when it raises; neither raises, and neither changes the history.
SmallTalkHelpersTotal ==
    [][ /\ lastOp' = "get_greeting" =>
             /\ ~ret'.raised
             /\ Len(smalltalk') = 1
             /\ ret'.value = IF smalltalk'[1].raised
                             THEN GREETING_FALLBACK
                             ELSE Strip(smalltalk'[1].content)
             /\ history' = history
        /\ lastOp' = "get_farewell" =>
             /\ ~ret'.raised
             /\ Len(smalltalk') = 1
             /\ ret'.value = IF smalltalk'[1].raised
                             THEN FAREWELL_FALLBACK
                             ELSE Strip(smalltalk'[1].content)
             /\ history' = history ]_vars

\* get_farewell() fell back to its static text in the middle of a conversation
FarewellFallbackServed ==
    /\ lastOp = "get_farewell"
    /\ smalltalk = <<Raises>>
    /\ ret.value = FAREWELL_FALLBACK
    /\ history # <<>>

\* the most recent entries of h, at most six, oldest first
RecentEntries(h) ==
    IF Len(h) <= 6 THEN h ELSE [i \in 1..6 |-> h[Len(h) - 6 + i]]

\* one labelled line per entry, consecutive lines separated by a line break
RECURSIVE LabelledLines(_)
LabelledLines(entries) ==
    LET first == (IF entries[1].role = "user" THEN "User: " ELSE "Assistant: ")
                    \o entries[1].content
    IN  IF Len(entries) = 1
        THEN first
        ELSE first \o "\n" \o LabelledLines(Tail(entries))

\* C16: the chat_history text handed to the graph is never empty: for an
\* empty history it is "No previous conversation.", otherwise it is one
\* "User:" / "Assistant:" line for each of the most recent entries, at most
\* the last six, in their original order.
ChatHistoryTextNeverEmpty ==
    [][ (lastOp' = "chat" /\ run'.invoked) =>
            /\ run'.state.chat_history # ""
            /\ run'.state.chat_history =
                  IF history = <<>>
                  THEN "No previous conversation."
                  ELSE LabelledLines(RecentEntries(history)) ]_vars

\* the graph was entered with more than six entries in the history
LongHistoryRendered ==
    /\ ChatDone
    /\ run.invoked
    /\ Len(history) = 10
    /\ history[1].content # history[7].content
    /\ run.state.chat_history # NO_HISTORY

\* the complete stage sequences of one turn
FULL_PATHS ==
    { <<"router", "off_topic">>,
      <<"router", "retriever", "validator", "responder">>,
      <<"router", "retriever", "validator", "insufficient">> }

\* calls of the language model in the last graph invocation
LlmCalls == Cardinality({i \in 1..Len(run.trace) : run.trace[i].node # "retriever"})

\* C19 as stated: every turn that enters the graph runs Router, then
\* Retriever unless the topic is off_topic, then Validator, then exactly one
\* terminal node, with no stage skipped; at most three language-model calls
\* and one retrieval.
StagesAlwaysComplete ==
    run.invoked =>
        /\ TraceNodes \in FULL_PATHS
        /\ (TraceNodes[2] = "off_topic") <=> (run.state.topic = "off_topic")
        /\ LlmCalls <= 3
        /\ TimesExecuted("retriever") <= 1

\* C19 amended: the stages of a turn that enters the graph are an initial
\* part of Router, Retriever (only if the topic is not off_topic), Validator
\* (right after the Retriever, whatever the context), one terminal node; the
\* sequence is complete unless a stage's external call raises, and then it
\* ends at that stage.  At most three language-model calls and one retrieval.
StagesInOrderUpToFailure ==
    run.invoked =>
        /\ run.trace # <<>>
        /\ \E path \in FULL_PATHS :
              /\ Len(run.trace) <= Len(path)
              /\ TraceNodes = SubSeq(path, 1, Len(run.trace))
        /\ Len(run.trace) >= 2 =>
              ((TraceNodes[2] = "off_topic") <=> (run.state.topic = "off_topic"))
        /\ \A i \in 1..(Len(run.trace) - 1) : ~run.trace[i].raised
        /\ LastStep.raised <=> run.raised
        /\ ~run.raised => TraceNodes \in FULL_PATHS
        /\ LlmCalls <= 3
        /\ TimesExecuted("retriever") <= 1

\* the validator and the responder ran on an empty retrieved context
EmptyContextValidated ==
    /\ run.invoked /\ ~run.raised
    /\ TraceNodes = <<"router", "retriever", "validator", "responder">>
    /\ run.state.context = ""
    /\ LlmCalls = 3

\* C17 as stated: after clear_history() and a new get_greeting() the
\* conversation history holds exactly one entry, the greeting.
GreetingRecordedAfterClear ==
    (lastOp = "clear_chat" /\ chatbot) =>
        /\ Len(get_history(history)) = 1
        /\ get_history(history)[1] = [role |-> "assistant", content |-> ret.value]

\* C17 amended: clearing the chat and greeting again leaves the page's
\* transcript with exactly one entry, the new greeting, however long the
\* conversation was; the chatbot's own history is empty, since
\* get_greeting() records nothing.
ClearChatLeavesGreetingOnly ==
    (lastOp = "clear_chat" /\ chatbot) =>
        /\ Len(session_history) = 1
        /\ session_history[1] = [role |-> "assistant", content |-> ret.value]
        /\ ret.value \in {GREETING_FALLBACK, Strip(LLM_TEXT.greeting)}
        /\ history = <<>>

\* the chat was cleared after a conversation of several turns, the last of
\* which went through the graph
ClearedAfterConversation ==
    /\ lastOp = "clear_chat"
    /\ chatbot
    /\ Len(session_history) = 1
    /\ run.invoked
    /\ run.state.chat_history # NO_HISTORY

\* C18: two ProfileChatbot instances share no conversation state: a chat()
\* or clear_history() call on one instance leaves get_history() of the other
\* as it was, whatever the order of the calls on the two.
InstancesIsolated ==
    [][ \A b \in 1..Len(bots) :
          caller'.bot # b =>
              HistoryOf(Objects, b)
                 = get_history(lists'[bots'[b]]) ]_vars

\* one instance was cleared while the other holds a full window
ClearedBesideFullHistory ==
    /\ caller = [bot |-> 1, op |-> "clear_history", reply |-> ""]
    /\ HistoryOf(Objects, 1) = <<>>
    /\ Len(HistoryOf(Objects, 2)) = MAX_CONVERSATION_HISTORY
    /\ HistoryOf(Objects, 2)[2].content = Strip(LLM_TEXT.greeting)
    /\ bots[1] # bots[2]

-----------------------------------------------------------------------------
(* Properties of the hierarchy chunker                                     *)

\* the text of the i-th consumed element, trimmed
TextAt(i) == Strip(elements[i].page_content)

\* the i-th consumed element has text and, after correction, this category
IsA(i, category) ==
    /\ TextAt(i) # ""
    /\ CorrectedCategory(elements[i], TextAt(i)) = category

\* the last position after `from` holding an element of the category, or 0
LastAfter(from, category) ==
    LET at == {i \in (from + 1)..Len(elements) : IsA(i, category)}
    IN  IF at = {} THEN 0 ELSE CHOOSE i \in at : \A j \in at : j <= i

LastTitle == LastAfter(0, "Title")
LastHeader == LastAfter(LastTitle, "Header")
LastSubheader ==
    LastAfter(IF LastHeader = 0 THEN LastTitle ELSE LastHeader, "Subheader")

\* C20: a body element is accumulated under the path whose title, header and
\* subheader are the texts of the most recent Title, Header and Subheader
\* element before it (elements without text do not count), a Title making
\* header and subheader empty and a Header making the subheader empty;
\* before any Title the title is "Unknown Title".
BodyUnderLatestHeadings ==
    placed # None =>
        /\ placed[1].title =
              IF LastTitle = 0 THEN "Unknown Title" ELSE TextAt(LastTitle)
        /\ placed[1].header =
              IF LastHeader = 0 THEN "" ELSE TextAt(LastHeader)
        /\ placed[1].subheader =
              IF LastSubheader = 0 THEN "" ELSE TextAt(LastSubheader)
        /\ \E i \in 1..Len(sections) :
              /\ sections[i].path = placed[1]
              /\ sections[i].texts[Len(sections[i].texts)] = TextAt(Len(elements))

\* a body element follows a Header that came after a Subheader of the same Title
BodyAfterHeaderReset ==
    /\ placed # None
    /\ Len(elements) = 4
    /\ IsA(1, "Title") /\ IsA(2, "Subheader") /\ IsA(3, "Header")
    /\ placed[1].title = "Education"
    /\ placed[1].header = "Core Stack"
    /\ placed[1].subheader = ""

-----------------------------------------------------------------------------
(* Properties of the retrieval engine                                      *)

RetrieveDone == ragOut.op = "retrieve"

\* the topic argument of the last retrieve() names a key of TOPIC_MAP
TopicRecognised ==
    /\ ragOut.topic # None
    /\ \E i \in 1..Len(TOPIC_MAP) : TOPIC_MAP[i] = ragOut.topic[1]

\* chunks of the loaded index whose title metadata is the topic asked for
ChunksOfTopic ==
    {i \in 1..Len(vector_store[1]) :
        vector_store[1][i].title = ragOut.topic[1]}

\* C12: retrieve() raises RuntimeError whenever the index has not been
\* loaded, and on a loaded index with no chunk of the topic it returns the
\* empty sequence without raising.
RetrieveTellsUnloadedFromEmpty ==
    RetrieveDone =>
        /\ vector_store = None =>
              ragOut.raised /\ ragOut.error = "RuntimeError"
        /\ (vector_store # None /\ ragOut.topic # None /\ ChunksOfTopic = {}) =>
              ~ragOut.raised /\ ragOut.value = <<>>

\* C14: retrieve() builds no metadata filter for a null or empty topic, and
\* for every other topic, a key of TOPIC_MAP or not, the filter
\* {title: topic}.
FilterForEveryNonEmptyTopic ==
    (RetrieveDone /\ vector_store # None) =>
        IF ragOut.topic = None \/ ragOut.topic = Some("")
        THEN ragOut.search_filter = None
        ELSE ragOut.search_filter = Some([title |-> ragOut.topic[1]])

\* retrieve() on a loaded index built a filter for a topic outside TOPIC_MAP
UnrecognisedTopicFiltered ==
    /\ RetrieveDone
    /\ vector_store # None
    /\ ragOut.topic = Some("Cooking")
    /\ ragOut.search_filter = Some([title |-> "Cooking"])

\* C14 as stated: a filter is built exactly for the keys of TOPIC_MAP.
FilterOnlyForCanonicalTopics ==
    (RetrieveDone /\ vector_store # None) =>
        (ragOut.search_filter # None <=> TopicRecognised)

-----------------------------------------------------------------------------
(* Properties of the category-correction pass                              *)

\* the element the loop consumed last, and its stripped text
LastElement == elements[Len(elements)]

LastText == Strip(LastElement.page_content)

\* the loop has just handled an element that has text
ElementHandled == elements # <<>> /\ LastText # ""

\* the whole text of the last element is emphasized
LastIsBold == LastElement.metadata.emphasized_text_contents = <<LastText>>

LastIsNumbered == IsDigit(CharAt(LastText, 1))

\* the category the rule gives the last element, for a reading of all-caps
Reclassified(all_caps) ==
    LET category == LastElement.metadata.category
    IN  IF category = "Title" THEN "Title"
        ELSE IF LastIsBold \/ (all_caps /\ LastIsNumbered) THEN "Header"
        ELSE IF all_caps THEN "Subheader"
        ELSE category

\* C21: an element with text that is not labeled Title becomes a Header when
\* its whole text is emphasized or it is all-caps and starts with a digit, a
\* Subheader when it is all-caps alone, and keeps its category otherwise,
\* where all-caps means upper-case text of more than three characters; an
\* element labeled Title stays a Title.
CorrectionByVisualHints ==
    ElementHandled =>
        corrected = Some(Reclassified(IsUpper(LastText) /\ Len(LastText) > 3))

\* a numbered all-caps paragraph was reclassified as a Header
NumberedCapsBecameHeader ==
    /\ ElementHandled
    /\ LastText = "1. EXPERIENCE"
    /\ LastElement.metadata.category = "NarrativeText"
    /\ corrected = Some("Header")

\* C21 as stated: every all-caps element, however short, is reclassified.
CorrectionOfEveryAllCapsText ==
    ElementHandled => corrected = Some(Reclassified(IsUpper(LastText)))

-----------------------------------------------------------------------------
(* Properties of the emitted chunks                                        *)

RECURSIVE LoopAfter(_)
\* the loop's state after the first k elements
LoopAfter(k) ==
    IF k = 0 THEN NewChunker ELSE Track(LoopAfter(k - 1), elements[k])

\* the hierarchy paths under which some element was all_appended as body text
PathsWithBody ==
    {LoopAfter(k).placed[1] :
        k \in {j \in 1..Len(elements) : LoopAfter(j).placed # None}}

\* the hierarchy path a chunk was emitted for
PathOfChunk(doc) ==
    [source |-> doc.metadata.source, title |-> doc.metadata.title,
     header |-> doc.metadata.header, subheader |-> doc.metadata.subheader]

\* the chunks the function returned
Chunks == final_chunks[1]

\* the sub_chunks of all sections, in the order of the chunks
AllSubChunks == Flatten([i \in 1..Len(split_log) |-> split_log[i].sub_chunks])

\* the loop consumes an element whose text is empty or only whitespace
ConsumesBlank ==
    /\ elements' # elements
    /\ Strip(elements'[Len(elements')].page_content) = ""

\* the function returns its chunks
ChunksReturned ==
    final_chunks = None /\ final_chunks' # None

\* C22: an element whose text is empty or whitespace-only leaves the three
\* hierarchy trackers and every section as they were, and when the function
\* returns, no chunk's content and no chunk's body text is empty or
\* whitespace-only and every chunk belongs to a hierarchy path that received
\* a body element.
BlanksSkippedNoEmptyChunk ==
    [][/\ ConsumesBlank =>
             UNCHANGED <<current_title, current_header, current_subheader,
                         sections>>
       /\ ChunksReturned =>
             \A i \in 1..Len(Chunks') :
                /\ Strip(Chunks'[i].page_content) # ""
                /\ Strip(AllSubChunks'[i]) # ""
                /\ PathOfChunk(Chunks'[i]) \in PathsWithBody]_vars

\* chunks were returned for a document with a blank element after a body
\* paragraph and with a last heading that received no body
BlankAndBareHeadingIngested ==
    /\ final_chunks # None
    /\ Len(elements) = 4
    /\ elements[1].page_content = "Education"
    /\ elements[2].page_content = "Python, FAISS"
    /\ elements[3].page_content = "   "
    /\ elements[4].page_content = "Core Stack"
    /\ Len(Chunks) = 1
    /\ Chunks[1].metadata.header = ""

\* the chunks emitted for a hierarchy path
ChunksOfPath(path) == {i \in 1..Len(Chunks) : PathOfChunk(Chunks[i]) = path}

\* the gate of pass 4: a section goes to the splitter exactly when its
\* joined text has at least chunk-size threshold characters; a section kept
\* from the splitter, and every section with fewer tokens than the
\* threshold, is emitted as exactly one chunk for its path, with
\* sub_chunks = [full_section_text].
SplitterGatedByCharacters ==
    final_chunks # None =>
        \A i \in 1..Len(split_log) :
            LET section == split_log[i]
                text    == section.full_section_text
            IN  /\ section.split <=> Len(text) >= CHUNK_WARNING_THRESHOLD
                /\ (~section.split
                      \/ get_token_count(text) < CHUNK_WARNING_THRESHOLD) =>
                      /\ section.sub_chunks = <<text>>
                      /\ Cardinality(ChunksOfPath(section.path)) = 1

\* a section of few tokens but many characters went to the splitter and came
\* back whole, beside a section that was split in two
FewTokensManyCharacters ==
    /\ final_chunks # None
    /\ Len(split_log) = 2
    /\ split_log[1].full_section_text = "Python, FAISS"
    /\ split_log[1].split
    /\ split_log[1].sub_chunks = <<"Python, FAISS">>
    /\ split_log[2].split
    /\ Len(split_log[2].sub_chunks) = 2

\* C23: a section of fewer tokens than the chunk-size threshold is emitted
\* as exactly one chunk for its path, with sub_chunks = [full_section_text],
\* and only sections of at least the threshold in tokens are passed to the
\* splitter.
SplitterGatedByTokens ==
    final_chunks # None =>
        \A i \in 1..Len(split_log) :
            LET section == split_log[i]
                text    == section.full_section_text
            IN  /\ get_token_count(text) < CHUNK_WARNING_THRESHOLD =>
                      /\ section.sub_chunks = <<text>>
                      /\ Cardinality(ChunksOfPath(section.path)) = 1
                /\ section.split =>
                      get_token_count(text) >= CHUNK_WARNING_THRESHOLD

\* C30: every returned chunk carries as original_category the category the
\* parser gave the last element of the input, whichever elements made up
\* the chunk's section.
OriginalCategoryOfLastElement ==
    final_chunks # None =>
        \A i \in 1..Len(Chunks) :
            Chunks[i].metadata.original_category
                = elements[Len(elements)].metadata.category

\* the chunk of a list item carries the parser category of the numbered
\* heading that ended the document, not the corrected one
ListItemChunkCarriesHeadingCategory ==
    /\ final_chunks # None
    /\ Len(elements) = 2
    /\ elements[1].metadata.category = "ListItem"
    /\ elements[2].page_content = "1. EXPERIENCE"
    /\ corrected = Some("Header")
    /\ Len(Chunks) = 1
    /\ Chunks[1].metadata.original_category = "NarrativeText"

-----------------------------------------------------------------------------
(* Properties of the retrieval engine, continued                           *)

\* C24: every retrieve() on a loaded index gets as far as the similarity
\* search, which it requests with k = TOP_K_RESULTS and the configured
\* over-fetch size, and returns at most k chunk contents.
RetrieveSearchesWithOverFetch ==
    (RetrieveDone /\ vector_store # None) =>
        /\ {"TOP_K_RESULTS", "FETCH_RESULTS"} \subseteq SETTINGS
        /\ ~ragOut.raised
        /\ Len(ragOut.value) <= TOP_K_RESULTS

\* C27: every engine that get_rag_engine() returns has a loaded index.
ReturnedEngineIsLoaded ==
    (ragOut.op = "get_rag_engine" /\ ~ragOut.raised) =>
        _engine # None /\ _engine[1].vector_store # None

-----------------------------------------------------------------------------
(* Properties of the Validator's verdict                                   *)

\* the steps of the last run in which the validator's model call returned
ValidatorSteps ==
    {i \in 1..Len(run.trace) :
        run.trace[i].node = "validator" /\ ~run.trace[i].raised}

\* the node that ran after step i
NodeAfter(i) == run.trace[i + 1].node

\* the raw response contains PASS in any letter case
MentionsPass(raw) == Contains(Upper(raw), "PASS")

\* the raw response is the word PASS alone, in any letter case
IsBarePass(raw) == Upper(Strip(raw)) = "PASS"

\* C25: the verdict is PASS exactly when the validator's raw response
\* contains PASS in any letter case and FAIL otherwise, and the graph goes
\* on to the Responder exactly when the response contains PASS, also inside
\* another word or a negation, and to the Insufficient-Context fallback
\* otherwise.
VerdictBySubstring ==
    \A i \in ValidatorSteps :
        LET raw == run.trace[i].content IN
        /\ run.state.validation = (IF MentionsPass(raw) THEN "PASS" ELSE "FAIL")
        /\ i < Len(run.trace)
        /\ NodeAfter(i) = (IF MentionsPass(raw) THEN "responder"
                           ELSE "insufficient")

\* a validator response that denies sufficiency went on to the Responder
DenialReachedResponder ==
    /\ ChatDone
    /\ \E i \in ValidatorSteps :
          /\ run.trace[i].content = "The context does not pass."
          /\ run.state.validation = "PASS"
          /\ NodeAfter(i) = "responder"

\* C25 as stated: the verdict follows the substring PASS, and every raw
\* response other than a plain PASS is routed to the Insufficient-Context
\* fallback.
OnlyPlainPassReachesResponder ==
    \A i \in ValidatorSteps :
        LET raw == run.trace[i].content IN
        /\ run.state.validation = (IF MentionsPass(raw) THEN "PASS" ELSE "FAIL")
        /\ ~IsBarePass(raw) => (i < Len(run.trace) /\ NodeAfter(i) = "insufficient")

-----------------------------------------------------------------------------
(* Properties of the small-talk gate of chat()                             *)

\* the trimmed, lower-cased form of the last query
LastLower == Strip(Lower(lastQuery))

\* it is exactly one of the greeting words
ExactGreeting == LastLower \in GREETING_WORDS

\* it contains a farewell keyword somewhere
MentionsFarewell == \E w \in FAREWELL_WORDS : Contains(LastLower, w)

\* C29: chat() invokes the graph if and only if the trimmed, lower-cased
\* query is not exactly a greeting word and contains no farewell keyword as
\* a substring; a query that is no greeting but contains a farewell keyword
\* anywhere is answered by the farewell generator and reaches no node.
GraphEnteredIffNoSmallTalk ==
    ChatDone =>
        /\ run.invoked <=> (~ExactGreeting /\ ~MentionsFarewell)
        /\ (~ExactGreeting /\ MentionsFarewell) =>
              /\ run.trace = <<>>
              /\ smalltalk # <<>>
              /\ ret.value = get_farewell(smalltalk[1])

\* a profile question with "stop" inside a word got the farewell reply
QuestionTakenForFarewell ==
    /\ ChatDone
    /\ lastQuery = "Which projects have you stopped working on?"
    /\ ~run.invoked
    /\ ret.value = Strip(LLM_TEXT.farewell)

-----------------------------------------------------------------------------
(* Properties of the shape of the history                                  *)

\* the role of the entry at position i of an alternating history
RoleAt(i) == IF i % 2 = 1 THEN "user" ELSE "assistant"

\* C28: after every completed call the history has even length and its
\* entries alternate user, assistant, from a user entry to an assistant
\* entry; eviction removes whole exchanges, so half the length is the
\* number of retained exchanges.
HistoryAlternates ==
    LET h == get_history(history) IN
    /\ Len(h) % 2 = 0
    /\ \A i \in 1..Len(h) : h[i].role = RoleAt(i)
    /\ (Len(pushed) - Len(h)) % 2 = 0
    /\ \A j \in 1..(Len(h) \div 2) :
          /\ h[2 * j - 1] = pushed[Len(pushed) - Len(h) + 2 * j - 1]
          /\ h[2 * j] = pushed[Len(pushed) - Len(h) + 2 * j]

\* the eleventh exchange evicted the first one, and the history still runs
\* from a user entry to an assistant entry
EvictionKeptAlternation ==
    /\ ChatDone
    /\ Len(pushed) = MAX_CONVERSATION_HISTORY + 2
    /\ Len(history) = MAX_CONVERSATION_HISTORY
    /\ history[1].role = "user"
    /\ history[1] = pushed[3]
    /\ history[Len(history)].role = "assistant"

-----------------------------------------------------------------------------
(* Properties of two threads on one chatbot                                *)

\* C26: at most one chat() call is under way on a chatbot at any time, and
\* whenever none is, the history alternates user, assistant with each
\* turn's reply directly behind its query and holds the most recent of all
\* entries ever all_appended, none lost.
TurnsNeverOverlap ==
    /\ Cardinality(InChat) <= 1
    /\ InChat = {} =>
          /\ \A i \in 1..Len(self_history) : self_history[i].role = RoleAt(i)
          /\ \A i \in 1..Len(self_history) :
                (i % 2 = 1 /\ i < Len(self_history)) =>
                    self_history[i + 1].content
                        = ReplyFor(<<>>, self_history[i].content)
          /\ Len(self_history) =
                IF Len(all_appended) <= MAX_CONVERSATION_HISTORY
                THEN Len(all_appended) ELSE MAX_CONVERSATION_HISTORY
          /\ \A i \in 1..Len(self_history) :
                self_history[i]
                    = all_appended[Len(all_appended) - Len(self_history) + i]

====
